---- MODULE Spec2Model ----
(***************************************************************************)
(* Model of the JAWS "new project" command (src/unnamed/part_000): the     *)
(* promise pipeline of module.exports.create and the module-level          *)
(* `project` object it fills and reads.  Strings the code inspects         *)
(* character by character (project name, stage) are sequences of           *)
(* one-character strings.                                                  *)
(***************************************************************************)
EXTENDS Integers, Sequences, FiniteSets, TLC

VARIABLES
  pc,          \* position of the create() promise chain
  answers,     \* result of _getAnswers, argument of _prepareProjectData
  noExeCf,     \* 7th argument of create()
  project,     \* the module-level `project` object
  fs,          \* working directory: path -> content
  credentials, \* ~/.aws/credentials: the stored profile names, or NoFile
  s3,          \* [buckets, objects] of the object storage service
  stacks,      \* stack-creation requests submitted to CloudFormation
  pending,     \* scaffold operations of Promise.all still in flight
  polls,       \* status polls done by the running monitorCfCreate
  cfOutputs,   \* value the stack step resolved with
  cfTemplate,  \* Parameters defaults of the cached ../templates/jaws-cf object
  settled,     \* how the promise returned by create() settled
  unhandled,   \* rejected promises that were constructed and dropped
  calls,       \* side-effecting calls made by the current invocation
  faults,      \* I/O and remote failures injected so far
  lastStatus,  \* stack status the latest poll reported
  before,      \* fs, credentials, s3 and stacks as the current invocation found them
  history,     \* the invocations that resolved, in order
  creates,     \* number of create() invocations started
  chains,      \* create() invocations in flight together: each one's chain
  inflight,    \* scaffold operations those invocations have in flight
  disk,        \* the file tree the runtime plugin works on: path -> kind
  func,        \* the function object handed to the runtime plugin
  plugin,      \* fields of the ServerlessRuntimeBase instance
  SUtils,      \* the module-level `let SUtils` of RuntimeBase.js
  returned     \* what the latest call of a plugin method gave its caller

\* state of the `new project` command
createVars == <<pc, answers, noExeCf, project, fs, credentials, s3, stacks, pending,
                polls, cfOutputs, cfTemplate, settled, unhandled, calls, faults,
                lastStatus, before, history, creates>>

\* state of interleaved create() invocations
chainVars == <<chains, inflight>>

\* state of the runtime plugin
runtimeVars == <<disk, func, plugin, SUtils, returned>>

vars == <<createVars, chainVars, runtimeVars>>

----------------------------------------------------------------------------
(* Bounds of the model *)

MaxFaults == 1
MaxCreates == 2
MaxPolls == 2

----------------------------------------------------------------------------
(* Characters and the String methods used by _prepareProjectData *)

UpperChars == <<"A","B","C","D","E","F","G","H","I","J","K","L","M",
                "N","O","P","Q","R","S","T","U","V","W","X","Y","Z">>
LowerChars == <<"a","b","c","d","e","f","g","h","i","j","k","l","m",
                "n","o","p","q","r","s","t","u","v","w","x","y","z">>
DigitChars == {"0","1","2","3","4","5","6","7","8","9"}
SpaceChars == {" ", "\t", "\n"}

Range(s) == {s[i] : i \in DOMAIN s}
Upper == Range(UpperChars)
Lower == Range(LowerChars)

LowerOf(c) ==
  IF c \in Upper
    THEN LowerChars[CHOOSE i \in DOMAIN UpperChars : UpperChars[i] = c]
    ELSE c

toLowerCase(s) == [i \in DOMAIN s |-> LowerOf(s[i])]

RECURSIVE TrimLeft(_)
TrimLeft(s) ==
  IF s # <<>> /\ Head(s) \in SpaceChars THEN TrimLeft(Tail(s)) ELSE s

RECURSIVE TrimRight(_)
TrimRight(s) ==
  IF s # <<>> /\ s[Len(s)] \in SpaceChars
    THEN TrimRight(SubSeq(s, 1, Len(s) - 1))
    ELSE s

trim(s) == TrimRight(TrimLeft(s))

\* substring(0, n)
substring0(s, n) == SubSeq(s, 1, IF Len(s) < n THEN Len(s) ELSE n)

\* the class [a-zA-Z-\d\s:] whose complement line 181 deletes
KeptByStrip(c) == c \in Upper \cup Lower \cup DigitChars \cup SpaceChars \cup {"-", ":"}

\* the class [a-zA-Z0-9-] of line 186
AwsNameChar(c) == c \in Upper \cup Lower \cup DigitChars \cup {"-"}

NameSubstringEnd == 19

\* lines 180-183
NormalizeName(name) ==
  LET kept     == SelectSeq(trim(toLowerCase(name)), KeptByStrip)
      hyphened == [i \in DOMAIN kept |->
                     IF kept[i] \in SpaceChars THEN "-" ELSE kept[i]]
  IN  substring0(hyphened, NameSubstringEnd)

\* line 186: /^([a-zA-Z0-9-]+)$/.exec(project.name)
nameOk(name) == name # <<>> /\ \A i \in DOMAIN name : AwsNameChar(name[i])

Local == <<"l","o","c","a","l">>

\* line 174
StageIsLocal(stage) == toLowerCase(stage) = Local

\* undefined, and the falsy values among the plain strings of the model
Undefined == "<undefined>"
Falsy(x) == x \in {Undefined, ""}

----------------------------------------------------------------------------
(* Inputs: what the caller passes and what the operator types at the prompts *)

Demo     == <<"D","e","m","o">>
SpacedBang == <<" ","m","y"," ","a","p","!"," ">>
WithColon == <<"a",":","b">>
OnlyBangs == <<"!","!">>
LongName == <<"p","r","o","j","e","c","t","-","0","1","2","3","4","5","6",
              "7","8","9","x","y","z">>

Dev       == <<"d","e","v">>
Prod      == <<"p","r","o","d">>
LocalCap  == <<"L","o","c","a","l">>
LocalUp   == <<"L","O","C","A","L">>

AllNames  == {Demo, SpacedBang, WithColon, OnlyBangs, LongName}
AllStages == {Dev, Prod, Local, LocalCap, LocalUp}
AllKeys   == {"", "AKIAXXXX"}
AllSecrets == {"", "s3cr3t"}

Regions   == {"us-east-1"}
Buckets   == {"jawsproject.yourdomain.com"}
Emails    == {<<" ","m","@","x"," ">>}

\* values shortid.generate() may return (its alphabet is [0-9a-zA-Z_-])
ShortIds  == {<<"a","_","b">>, <<"x","-","9">>}

\* outputs a created stack may report
ArnLambda == "arn:aws:iam::role/lambda"
ArnApiGw  == "arn:aws:iam::role/apig"
OutputLists ==
  { <<>>,
    <<[OutputKey |-> "IamRoleArnLambda", OutputValue |-> ArnLambda]>>,
    <<[OutputKey |-> "IamRoleArnApiGateway", OutputValue |-> ArnApiGw],
      [OutputKey |-> "Other", OutputValue |-> "x"],
      [OutputKey |-> "IamRoleArnLambda", OutputValue |-> ArnLambda]>> }

----------------------------------------------------------------------------
(* The working directory *)

Dir == [kind |-> "dir"]
Path(root, item) == <<root, item>>
RootDir(root) == Path(root, ".")

\* the items _createProjectDirectory creates under project.rootPath
ScaffoldItems == {"front", "tests", "back/lambdas", "back/lib",
                  "admin.env", "jaws-cf.json"}
MkdirItems == {"front", "tests", "back/lambdas", "back/lib"}

Parent(item) == IF item \in {"back/.env", "back/lambdas", "back/lib"}
                  THEN "back" ELSE "."

\* fs.existsSync(path.join(process.cwd(), name)): path.join(cwd, '') is cwd
existsSync(f, name) == name = <<>> \/ RootDir(name) \in DOMAIN f

Put(f, path, content) == [p \in DOMAIN f \cup {path} |->
                            IF p = path THEN content ELSE f[p]]

\* utils.writeFile: creates the missing parent directories, then the file
writeFile(f, root, item, content) ==
  LET withRoot == IF RootDir(root) \in DOMAIN f THEN f
                  ELSE Put(f, RootDir(root), Dir)
      withParent == IF Parent(item) = "." \/ Path(root, Parent(item)) \in DOMAIN withRoot
                      THEN withRoot
                      ELSE Put(withRoot, Path(root, Parent(item)), Dir)
  IN  Put(withParent, Path(root, item), content)

\* fs.mkdir fails (EEXIST, ENOENT) on an existing path or a missing parent
mkdirCan(f, root, item) ==
  /\ Path(root, item) \notin DOMAIN f
  /\ Path(root, Parent(item)) \in DOMAIN f

DemoLower == <<"d","e","m","o">>
DemoAb    == <<"d","e","m","o","-","a","b">>
EmptyFs   == [p \in {} |-> Dir]
InitialFs ==
  { EmptyFs,
    Put(EmptyFs, RootDir(DemoLower), Dir),
    Put(Put(EmptyFs, RootDir(DemoLower), Dir), RootDir(DemoAb), Dir),
    Put(Put(Put(EmptyFs, RootDir(DemoLower), Dir), RootDir(DemoAb), Dir),
        Path(DemoAb, "front"), Dir) }

NoCredentialsFile == [exists |-> FALSE, profiles |-> {}]
InitialCredentials == {NoCredentialsFile, [exists |-> TRUE, profiles |-> {"admin"}]}

\* the module-level `var project = {}` (line 28)
EmptyProject ==
  [name |-> <<>>, stage |-> <<>>, notificationEmail |-> <<>>, rootPath |-> <<>>,
   awsProfile |-> Undefined, region |-> Undefined, s3Bucket |-> Undefined]

NoAnswers == [name |-> <<>>, stage |-> <<>>, notificationEmail |-> <<>>,
              s3Bucket |-> Undefined, region |-> Undefined, awsProfile |-> Undefined,
              awsAdminKeyId |-> Undefined, awsAdminSecretKey |-> Undefined]

\* `undefined` where a list of stack outputs is expected
NoOutputs == [defined |-> FALSE, list |-> <<>>]
Outputs(list) == [defined |-> TRUE, list |-> list]

TemplateAsShipped == [aaProjectName |-> <<>>, aaStage |-> <<>>,
                      aaDataModelPrefix |-> <<>>, aaNotficationEmail |-> <<>>]

\* no interleaved invocations
NoChains ==
  /\ chains = <<>>
  /\ inflight = {}

\* RuntimeBase.js not loaded
NoRuntime ==
  /\ disk = <<>>
  /\ func = [name |-> <<>>]
  /\ plugin = [name |-> <<>>]
  /\ SUtils = Undefined
  /\ returned = [op |-> "none"]

InitWith(fileSystems, credentialFiles) ==
  /\ NoChains
  /\ NoRuntime
  /\ pc = "idle"
  /\ answers = NoAnswers
  /\ noExeCf = FALSE
  /\ project = EmptyProject
  /\ fs \in fileSystems
  /\ credentials \in credentialFiles
  /\ s3 = [buckets |-> {}, objects |-> {}]
  /\ stacks = {}
  /\ pending = {}
  /\ polls = 0
  /\ cfOutputs = NoOutputs
  /\ cfTemplate = TemplateAsShipped
  /\ settled = [state |-> "none"]
  /\ unhandled = {}
  /\ calls = {}
  /\ faults = 0
  /\ lastStatus = "none"
  /\ before = [fs |-> fs, credentials |-> credentials,
               s3 |-> [buckets |-> {}, objects |-> {}], stacks |-> {}]
  /\ history = <<>>
  /\ creates = 0

Init == InitWith(InitialFs, InitialCredentials)

\* an injected failure of a fallible external operation
CanFail == faults < MaxFaults

Reject(code) == [state |-> "rejected", error |-> code]
Resolve(value) == [state |-> "resolved", value |-> value]
Pending == [state |-> "pending"]

----------------------------------------------------------------------------
(* _getAnswers, lines 56-164: the answers the chain continues with.  Every  *)
(* field comes from the argument when it is truthy and from the prompt      *)
(* otherwise; the credential questions depend on ~/.aws/credentials.        *)

getAnswers(names, stages, keys, secrets, skips) ==
  /\ pc \in {"idle", "resolved", "rejected"}
  /\ pending = {}
  /\ creates < MaxCreates
  /\ \E name \in names, stage \in stages, bucket \in Buckets, region \in Regions,
        email \in Emails, skip \in skips :
       /\ \/ /\ credentials.exists
             /\ \E profile \in credentials.profiles :
                  answers' = [NoAnswers EXCEPT !.name = name, !.stage = stage,
                                !.s3Bucket = bucket, !.region = region,
                                !.notificationEmail = email, !.awsProfile = profile]
          \/ /\ ~credentials.exists
             /\ \E key \in keys, secret \in secrets :
                  answers' = [NoAnswers EXCEPT !.name = name, !.stage = stage,
                                !.s3Bucket = bucket, !.region = region,
                                !.notificationEmail = email,
                                !.awsAdminKeyId = key, !.awsAdminSecretKey = secret]
       /\ noExeCf' = skip
  /\ pc' = "prepareProjectData"
  /\ settled' = Pending
  /\ creates' = creates + 1
  /\ calls' = {}
  /\ unhandled' = {}
  /\ polls' = 0
  /\ cfOutputs' = NoOutputs
  /\ lastStatus' = "none"
  /\ before' = [fs |-> fs, credentials |-> credentials, s3 |-> s3, stacks |-> stacks]
  /\ UNCHANGED <<project, fs, credentials, s3, stacks, pending, faults, cfTemplate,
                 history>>

----------------------------------------------------------------------------
(* _prepareProjectData, lines 173-229 *)

\* line 195: shortid.generate().replace(/[_-]/g, '')
IsIdChar(c) == c \notin {"_", "-"}
StripId(id) == SelectSeq(id, IsIdChar)

\* lines 193-196
UniqueName(f, name, id) ==
  IF existsSync(f, name) THEN name \o <<"-">> \o StripId(id) ELSE name

\* lines 174-178 and 186-191: each Promise.reject(...) builds a rejected
\* promise that is neither returned nor thrown
DroppedRejections(a) ==
  (IF StageIsLocal(a.stage) THEN {"UNKNOWN"} ELSE {})
    \cup (IF ~nameOk(NormalizeName(a.name)) THEN {"INVALID_PROJ_NAME"} ELSE {})

\* lines 205-215: `reject` is bound nowhere in the module, so reaching either
\* call throws a ReferenceError out of _prepareProjectData
CallsUnboundReject(a) == Falsy(a.awsAdminKeyId) \/ Falsy(a.awsAdminSecretKey)

\* lines 222-226
WithOtherData(p, a) ==
  [p EXCEPT !.stage = a.stage, !.region = a.region,
            !.notificationEmail = trim(a.notificationEmail),
            !.s3Bucket = a.s3Bucket]

\* the chain with the scaffold step moved before the storage step
ThenAfter_scaffoldFirst(step) ==
  CASE step = "prepareProjectData"     -> "createProjectDirectory"
    [] step = "createProjectDirectory" -> "createS3JawsStructure"
    [] step = "createS3JawsStructure"  -> "afterScaffold"

\* create, lines 388-392: the order of the .then chain
ThenAfter(step) ==
  CASE step = "prepareProjectData"     -> "createS3JawsStructure"
    [] step = "createS3JawsStructure"  -> "createProjectDirectory"
    [] step = "createProjectDirectory" -> "afterScaffold"

PrepareProjectData ==
  /\ pc = "prepareProjectData"
  /\ \E id \in ShortIds :
       LET name == UniqueName(fs, NormalizeName(answers.name), id)
           named == [project EXCEPT !.name = name]
       IN  /\ unhandled' = unhandled \cup DroppedRejections(answers)
           /\ IF ~Falsy(answers.awsProfile)
                THEN /\ project' = WithOtherData(
                            [named EXCEPT !.awsProfile = answers.awsProfile], answers)
                     /\ pc' = ThenAfter("prepareProjectData")
                     /\ UNCHANGED <<credentials, calls, settled>>
                ELSE IF CallsUnboundReject(answers)
                  THEN /\ project' = named
                       /\ pc' = "rejected"
                       /\ settled' = Reject("ReferenceError")
                       /\ UNCHANGED <<credentials, calls>>
                  ELSE /\ credentials' = [exists |-> TRUE,
                              profiles |-> credentials.profiles \cup {"default"}]
                       /\ calls' = calls \cup {"profilesSet"}
                       /\ project' = WithOtherData(
                              [named EXCEPT !.awsProfile = "default"], answers)
                       /\ pc' = ThenAfter("prepareProjectData")
                       /\ UNCHANGED settled
  /\ UNCHANGED <<answers, noExeCf, fs, s3, stacks, pending, polls, cfOutputs,
                 cfTemplate, faults, creates, before, lastStatus, history>>

----------------------------------------------------------------------------
(* _createS3JawsStructure, lines 277-289 *)

EnvFileContents(p) == [kind |-> "env", JAWS_STAGE |-> p.stage,
                       JAWS_DATA_MODEL_PREFIX |-> p.stage]

\* line 278: AWSUtils.createBucket
CreateS3JawsStructure ==
  /\ pc = "createS3JawsStructure"
  /\ calls' = calls \cup {"createBucket"}
  /\ \/ /\ s3' = [s3 EXCEPT !.buckets = @ \cup {project.s3Bucket}]
        /\ pc' = "putEnvFile"
        /\ UNCHANGED <<settled, faults>>
     \/ /\ CanFail
        /\ faults' = faults + 1
        /\ pc' = "rejected"
        /\ settled' = Reject("S3Error")
        /\ UNCHANGED s3
  /\ UNCHANGED <<answers, noExeCf, project, fs, credentials, stacks, pending,
                 polls, cfOutputs, cfTemplate, unhandled, creates, before, lastStatus, history>>

\* lines 279-288: AWSUtils.putEnvFile
PutEnvFile ==
  /\ pc = "putEnvFile"
  /\ calls' = calls \cup {"putEnvFile"}
  /\ \/ /\ s3' = [s3 EXCEPT !.objects = @ \cup
                    {[bucket |-> project.s3Bucket, projName |-> project.name,
                      stage |-> project.stage, body |-> EnvFileContents(project)]}]
        /\ pc' = ThenAfter("createS3JawsStructure")
        /\ UNCHANGED <<settled, faults>>
     \/ /\ CanFail
        /\ faults' = faults + 1
        /\ pc' = "rejected"
        /\ settled' = Reject("S3Error")
        /\ UNCHANGED s3
  /\ UNCHANGED <<answers, noExeCf, project, fs, credentials, stacks, pending,
                 polls, cfOutputs, cfTemplate, unhandled, creates, before, lastStatus, history>>

----------------------------------------------------------------------------
(* _createProjectDirectory, lines 236-267 *)

\* lines 239-256: root path, template defaults, then utils.writeFile(back/.env)
CreateProjectDirectory ==
  /\ pc = "createProjectDirectory"
  /\ project' = [project EXCEPT !.rootPath = project.name]
  /\ cfTemplate' = [aaProjectName |-> project.name, aaStage |-> project.stage,
                    aaDataModelPrefix |-> project.stage,
                    aaNotficationEmail |-> project.notificationEmail]
  /\ calls' = calls \cup {"back/.env"}
  /\ \/ /\ fs' = writeFile(fs, project.name, "back/.env", EnvFileContents(project))
        /\ pc' = "promiseAll"
        /\ UNCHANGED <<settled, faults>>
     \/ /\ CanFail
        /\ faults' = faults + 1
        /\ pc' = "rejected"
        /\ settled' = Reject("IOError")
        /\ UNCHANGED fs
  /\ UNCHANGED <<answers, noExeCf, credentials, s3, stacks, pending, polls,
                 cfOutputs, unhandled, creates, before, lastStatus, history>>

\* a Promise.all over the four directories only
PromiseAll_directoriesOnly ==
  /\ pc = "promiseAll"
  /\ pending' = MkdirItems
  /\ calls' = calls \cup MkdirItems
  /\ pc' = "awaitAll"
  /\ UNCHANGED <<answers, noExeCf, project, fs, credentials, s3, stacks, polls,
                 cfOutputs, cfTemplate, settled, unhandled, faults, creates, before, lastStatus, history>>

\* lines 257-266: the six operations handed to Promise.all are all started
PromiseAll ==
  /\ pc = "promiseAll"
  /\ pending' = ScaffoldItems
  /\ calls' = calls \cup ScaffoldItems
  /\ pc' = "awaitAll"
  /\ UNCHANGED <<answers, noExeCf, project, fs, credentials, s3, stacks, polls,
                 cfOutputs, cfTemplate, settled, unhandled, faults, creates, before, lastStatus, history>>

ItemContent(item) ==
  IF item \in MkdirItems THEN Dir
  ELSE IF item = "admin.env"
    THEN [kind |-> "adminEnv", ADMIN_AWS_PROFILE |-> project.awsProfile]
    ELSE [kind |-> "cf", Parameters |-> cfTemplate]

ItemCanSucceed(item) ==
  item \in MkdirItems => mkdirCan(fs, project.rootPath, item)

\* a step that resolves as soon as one operation has succeeded
AllSettled_any(left) == ThenAfter("createProjectDirectory")

\* Promise.all resolves when the last operation has succeeded
AllSettled(left) ==
  IF left = {} THEN ThenAfter("createProjectDirectory") ELSE "awaitAll"

\* one operation of the Promise.all completes; the first failure rejects the
\* step, the operations still in flight complete later on their own
SettleItem ==
  /\ pc \in {"awaitAll", "rejected"}
  /\ \E item \in pending :
       /\ pending' = pending \ {item}
       /\ \/ /\ ItemCanSucceed(item)
             /\ fs' = IF item \in MkdirItems
                        THEN Put(fs, Path(project.rootPath, item), Dir)
                        ELSE writeFile(fs, project.rootPath, item, ItemContent(item))
             /\ pc' = IF pc = "awaitAll" THEN AllSettled(pending \ {item}) ELSE pc
             /\ UNCHANGED <<settled, faults>>
          \/ /\ ~ItemCanSucceed(item) \/ CanFail
             /\ faults' = IF ItemCanSucceed(item) THEN faults + 1 ELSE faults
             /\ pc' = "rejected"
             /\ settled' = IF pc = "awaitAll" THEN Reject("IOError") ELSE settled
             /\ UNCHANGED fs
  /\ UNCHANGED <<answers, noExeCf, project, credentials, s3, stacks, polls,
                 cfOutputs, cfTemplate, unhandled, calls, creates, before, lastStatus, history>>

----------------------------------------------------------------------------
(* _createProjectJson, lines 326-374 *)

\* a loop that stops after the first output
ScanOutputs_firstOnly(list, key, found) ==
  IF list # <<>> /\ Head(list).OutputKey = key THEN Head(list).OutputValue
  ELSE found

\* lines 331-341: the loop over cfOutputs; a later entry overwrites an earlier
RECURSIVE ScanOutputs(_, _, _)
ScanOutputs(list, key, found) ==
  IF list = <<>> THEN found
  ELSE ScanOutputs(Tail(list), key,
                   IF Head(list).OutputKey = key THEN Head(list).OutputValue
                   ELSE found)

RoleArn(outs, key) ==
  IF outs.defined THEN ScanOutputs(outs.list, key, Undefined) ELSE Undefined

\* the value without its default
OrEmpty_noDefault(x) == x

\* x || ''
OrEmpty(x) == IF Falsy(x) THEN "" ELSE x

\* lines 354-359
StageRecord(p, outs) ==
  [region |-> p.region,
   iamRoleArnLambda |-> OrEmpty(RoleArn(outs, "IamRoleArnLambda")),
   iamRoleArnApiGateway |-> OrEmpty(RoleArn(outs, "IamRoleArnApiGateway"))]

\* lines 343-364
jawsJson(p, outs) ==
  [name |-> p.name,
   version |-> "0.0.1",
   description |-> <<p.name, ": An ambitious, server-less application">>,
   project |-> [stages |-> [st \in {p.stage} |-> <<StageRecord(p, outs)>>],
                envVarBucket |-> [name |-> p.s3Bucket, region |-> p.region]]]

\* JSON.stringify leaves out the properties whose value is undefined
DropUndefined(r) == [k \in {x \in DOMAIN r : r[x] # Undefined} |-> r[k]]

JSONStringify(json) ==
  [json EXCEPT
     !.project = [stages |->
                    [st \in DOMAIN json.project.stages |->
                       [i \in DOMAIN json.project.stages[st] |->
                          DropUndefined(json.project.stages[st][i])]],
                  envVarBucket |-> DropUndefined(json.project.envVarBucket)]]

ManifestFile(json) == [kind |-> "json", text |-> JSONStringify(json)]

\* the whole of _createProjectJson: fs.writeFileSync throws when the write fails
CreateProjectJson(outs) ==
  /\ calls' = calls \cup {"jaws.json"}
  /\ \/ /\ fs' = Put(fs, Path(project.rootPath, "jaws.json"),
                     ManifestFile(jawsJson(project, outs)))
        /\ pc' = "resolved"
        /\ settled' = Resolve(jawsJson(project, outs))
        /\ history' = Append(history, [name |-> answers.name, stage |-> answers.stage,
                                       noExeCf |-> noExeCf, rootPath |-> project.rootPath])
        /\ UNCHANGED faults
     \/ /\ CanFail
        /\ faults' = faults + 1
        /\ pc' = "rejected"
        /\ settled' = Reject("IOError")
        /\ UNCHANGED <<fs, history>>

----------------------------------------------------------------------------
(* create, lines 392-403, and _createCfStack, lines 295-317 *)

\* lines 306-313: AWSUtils.cfCreateStack
CreateCfStack ==
  /\ calls' = calls \cup {"cfCreateStack"}
  /\ \/ /\ stacks' = stacks \cup {[name |-> project.name, stage |-> project.stage,
                                   region |-> project.region]}
        /\ pc' = "monitorCfCreate"
        /\ UNCHANGED <<settled, faults>>
     \/ /\ CanFail
        /\ faults' = faults + 1
        /\ pc' = "rejected"
        /\ settled' = Reject("CfError")
        /\ UNCHANGED stacks

\* the callback with the noExeCf test left out
AfterScaffold_alwaysStack ==
  /\ pc = "afterScaffold"
  /\ CreateCfStack /\ UNCHANGED <<fs, history>>
  /\ UNCHANGED <<answers, noExeCf, project, credentials, s3, pending, polls,
                 cfOutputs, cfTemplate, unhandled, creates, before, lastStatus>>

\* the callback of lines 392-403
AfterScaffold ==
  /\ pc = "afterScaffold"
  /\ IF noExeCf
       THEN CreateProjectJson(NoOutputs) /\ UNCHANGED stacks
       ELSE CreateCfStack /\ UNCHANGED <<fs, history>>
  /\ UNCHANGED <<answers, noExeCf, project, credentials, s3, pending, polls,
                 cfOutputs, cfTemplate, unhandled, creates, before, lastStatus>>

\* the callback without its `return`: the monitor's outcome is lost
StackStepSettles_noReturn(monitor) == Pending

\* lines 314-316: the callback returns monitorCfCreate's promise, so the stack
\* step, and with it create(), settles the way the monitor does
StackStepSettles(monitor) == monitor

\* AWSUtils.monitorCfCreate (line 315): one status poll of the wait loop, which
\* gives up with a timeout when the wait budget is spent
MonitorCfCreate ==
  /\ pc = "monitorCfCreate"
  /\ polls < MaxPolls
  /\ polls' = polls + 1
  /\ calls' = calls \cup {"describeStacks"}
  /\ \/ \E list \in OutputLists :
          /\ lastStatus' = "CREATE_COMPLETE"
          /\ cfOutputs' = Outputs(list)
          /\ pc' = "createProjectJson"
          /\ UNCHANGED <<settled, faults>>
     \/ /\ CanFail
        /\ lastStatus' = "ROLLBACK_COMPLETE"
        /\ faults' = faults + 1
        /\ pc' = "rejected"
        /\ settled' = StackStepSettles(Reject("CfError"))
        /\ UNCHANGED cfOutputs
     \/ /\ lastStatus' = "CREATE_IN_PROGRESS"
        /\ pc' = IF polls + 1 < MaxPolls THEN pc ELSE "rejected"
        /\ settled' = IF polls + 1 < MaxPolls THEN settled
                      ELSE StackStepSettles(Reject("Timeout"))
        /\ UNCHANGED <<cfOutputs, faults>>
  /\ UNCHANGED <<answers, noExeCf, project, fs, credentials, s3, stacks, pending,
                 cfTemplate, unhandled, creates, before, history>>

\* line 401: .then(_createProjectJson)
ThenCreateProjectJson ==
  /\ pc = "createProjectJson"
  /\ CreateProjectJson(cfOutputs)
  /\ UNCHANGED <<answers, noExeCf, project, credentials, s3, stacks, pending,
                 polls, cfOutputs, cfTemplate, unhandled, creates, before, lastStatus>>

----------------------------------------------------------------------------
(* Specifications *)

\* module.exports.create, line 387-388: one invocation, any input
Create ==
  /\ creates = 0
  /\ getAnswers(AllNames, AllStages, AllKeys, AllSecrets, BOOLEAN)

\* the command touches neither another invocation nor the runtime plugin
Alone == UNCHANGED <<chainVars, runtimeVars>>

Pipeline ==
  \/ PrepareProjectData /\ Alone
  \/ CreateS3JawsStructure /\ Alone
  \/ PutEnvFile /\ Alone
  \/ CreateProjectDirectory /\ Alone
  \/ PromiseAll /\ Alone
  \/ SettleItem /\ Alone
  \/ AfterScaffold /\ Alone
  \/ MonitorCfCreate /\ Alone
  \/ ThenCreateProjectJson /\ Alone

Next == (Create /\ Alone) \/ Pipeline

Spec == Init /\ [][Next]_vars

\* repeated invocations for one project name, each with noExeCf set, one
\* after the other has settled
CreateSkipping ==
  getAnswers({Demo}, {Dev, Prod}, {"AKIAXXXX"}, {"s3cr3t"}, {TRUE})

NextSkipping ==
  \/ CreateSkipping /\ Alone
  \/ PrepareProjectData /\ Alone
  \/ CreateS3JawsStructure /\ Alone
  \/ PutEnvFile /\ Alone
  \/ CreateProjectDirectory /\ Alone
  \/ PromiseAll /\ Alone
  \/ SettleItem /\ Alone
  \/ AfterScaffold /\ Alone

InitSkipping ==
  InitWith({EmptyFs, Put(EmptyFs, RootDir(DemoLower), Dir)},
           {[exists |-> TRUE, profiles |-> {"admin"}]})

SpecSkipping == InitSkipping /\ [][NextSkipping]_vars

----------------------------------------------------------------------------
(* Properties *)

\* the validation step of the current invocation has run
Validated == pc \notin {"idle", "prepareProjectData"}

\* the current invocation has changed nothing outside the process
NoSideEffect ==
  /\ calls = {}
  /\ fs = before.fs
  /\ credentials = before.credentials
  /\ s3 = before.s3
  /\ stacks = before.stacks

StorageOrLater ==
  pc \in {"createS3JawsStructure", "putEnvFile", "createProjectDirectory",
          "promiseAll", "awaitAll", "afterScaffold", "monitorCfCreate",
          "createProjectJson", "resolved"}

\* C1: once validation has run on a stage that is "local" in any letter case,
\* create has failed with the reserved-stage error and the invocation has made
\* no side effect (no profile, bucket, env file, directory, file, stack
\* request or manifest).
C1_ReservedStageRejected ==
  (Validated /\ StageIsLocal(answers.stage))
    => (settled = Reject("UNKNOWN") /\ NoSideEffect)

\* C2: the storage, scaffold, stack and manifest steps are only ever reached
\* with a project name that is non-empty and made of [a-zA-Z0-9-] alone.
C2_NameIsAwsSafe ==
  StorageOrLater => nameOk(project.name)

\* C3: once validation has run with no profile chosen and the admin key id or
\* the secret key absent, create has failed with the missing-credentials error,
\* the 'default' profile has not been created and the invocation has made no
\* side effect.
C3_MissingCredentialsRejected ==
  (/\ Validated
   /\ Falsy(answers.awsProfile)
   /\ Falsy(answers.awsAdminKeyId) \/ Falsy(answers.awsAdminSecretKey))
    => /\ settled = Reject("MISSING_AWS_CREDS")
       /\ "default" \notin credentials.profiles
       /\ NoSideEffect

\* the env object of the current invocation is in the bucket
EnvObject == [bucket |-> project.s3Bucket, projName |-> project.name,
              stage |-> project.stage, body |-> EnvFileContents(project)]
StorageDone ==
  /\ {"createBucket", "putEnvFile"} \subseteq calls
  /\ project.s3Bucket \in s3.buckets
  /\ EnvObject \in s3.objects

\* createBucket or putEnvFile was called and did not take effect
StorageFailed ==
  \/ "createBucket" \in calls /\ project.s3Bucket \notin s3.buckets
  \/ "putEnvFile" \in calls /\ EnvObject \notin s3.objects

\* C4 as claimed: the storage step is complete before anything is written
\* locally (working directory or credential file), and a failed storage step
\* fails create with no local state written.
C4_NoLocalStateBeforeStorage ==
  /\ (fs # before.fs \/ credentials # before.credentials) => StorageDone
  /\ StorageFailed => /\ settled = Reject("S3Error")
                      /\ fs = before.fs
                      /\ credentials = before.credentials

\* C4 amended: the storage step is complete before anything is written in the
\* working directory, and a failed storage step fails create with the working
\* directory untouched; the one local write that can precede it is the
\* 'default' credential profile, stored by validation when admin keys are given.
C4_NoProjectFilesBeforeStorage ==
  /\ fs # before.fs => StorageDone
  /\ credentials # before.credentials
       => /\ Falsy(answers.awsProfile)
          /\ "profilesSet" \in calls
          /\ credentials.profiles = before.credentials.profiles \cup {"default"}
  /\ StorageFailed => /\ settled = Reject("S3Error")
                      /\ fs = before.fs
                      /\ calls \subseteq {"profilesSet", "createBucket", "putEnvFile"}

C4_Witness ==
  StorageFailed /\ "profilesSet" \in calls /\ settled = Reject("S3Error")

\* every path of the scaffold exists under the project root
ScaffoldComplete ==
  \A item \in ScaffoldItems \cup {"back/.env"} :
    Path(project.rootPath, item) \in DOMAIN fs

\* a scaffold operation was started, has completed and did not take effect
ItemFailed(item) ==
  /\ item \in calls \ pending
  /\ \/ Path(project.rootPath, item) \notin DOMAIN fs
     \/ item \in MkdirItems /\ Path(project.rootPath, item) \in DOMAIN before.fs
ScaffoldFailed == \E item \in ScaffoldItems \cup {"back/.env"} : ItemFailed(item)

StackRequest == [name |-> project.name, stage |-> project.stage,
                 region |-> project.region]
StackFailed ==
  \/ "cfCreateStack" \in calls /\ StackRequest \notin stacks
  \/ lastStatus = "ROLLBACK_COMPLETE"
  \/ lastStatus = "CREATE_IN_PROGRESS" /\ polls = MaxPolls

ManifestUntouched ==
  /\ "jaws.json" \notin calls
  /\ \A p \in DOMAIN fs : p[2] = "jaws.json" => p \in DOMAIN before.fs /\ fs[p] = before.fs[p]

\* each stage is entered only with the previous stage's work in place, and a
\* failed scaffold or stack stage fails create without a stack request (after
\* a scaffold failure) and without a manifest
C5_Stages ==
  /\ "createBucket" \in calls => Validated /\ project.stage = answers.stage
  /\ "putEnvFile" \in calls => project.s3Bucket \in s3.buckets
  /\ "back/.env" \in calls => StorageDone
  /\ ScaffoldItems \cap calls # {} => Path(project.rootPath, "back/.env") \in DOMAIN fs
  /\ "cfCreateStack" \in calls => ScaffoldComplete /\ pending = {}
  /\ "describeStacks" \in calls => StackRequest \in stacks
  /\ "jaws.json" \in calls
       => /\ ScaffoldComplete /\ pending = {}
          /\ noExeCf \/ (StackRequest \in stacks /\ lastStatus = "CREATE_COMPLETE")
  /\ ScaffoldFailed => /\ settled = Reject("IOError")
                       /\ "cfCreateStack" \notin calls
                       /\ stacks = before.stacks
                       /\ ManifestUntouched
  /\ StackFailed => /\ settled.state = "rejected"
                    /\ ManifestUntouched

\* nothing that exists is removed by a step
C5_NoRollback ==
  /\ DOMAIN fs \subseteq DOMAIN fs'
  /\ s3.buckets \subseteq s3'.buckets
  /\ s3.objects \subseteq s3'.objects
  /\ stacks \subseteq stacks'
  /\ credentials.profiles \subseteq credentials'.profiles

\* C5: the stages run in the order validate, storage, scaffold, stack,
\* manifest, each entered only after the previous one succeeded; a failed
\* scaffold or stack stage fails create, no manifest is written, no stack
\* request follows a scaffold failure, and no completed work is rolled back.
C5_OrderedNoCompensation == []C5_Stages /\ [][C5_NoRollback]_vars

C5_Witness ==
  /\ ScaffoldFailed /\ pending = {}
  /\ settled = Reject("IOError")
  /\ \E item \in ScaffoldItems : Path(project.rootPath, item) \in DOMAIN fs \ DOMAIN before.fs
  /\ StorageDone

\* the stage record of a manifest
RecordOf(manifest, stage) == manifest.project.stages[stage][1]
EmptyArns(r) ==
  /\ {"iamRoleArnLambda", "iamRoleArnApiGateway"} \subseteq DOMAIN r
  /\ r.iamRoleArnLambda = ""
  /\ r.iamRoleArnApiGateway = ""

C6_NoStackWork ==
  noExeCf =>
    /\ {"cfCreateStack", "describeStacks"} \cap calls = {}
    /\ stacks = before.stacks
    /\ polls = 0
    /\ pc \notin {"monitorCfCreate", "createProjectJson"}
    /\ settled.state = "resolved"
         => /\ EmptyArns(RecordOf(settled.value, answers.stage))
            /\ EmptyArns(RecordOf(fs[Path(project.rootPath, "jaws.json")].text,
                                  answers.stage))

\* the step that follows a successful scaffold writes the manifest and
\* resolves create (or is the failure of that very write)
C6_StraightToManifest ==
  (noExeCf /\ pc = "afterScaffold" /\ pc' # pc)
    => \/ /\ pc' = "resolved"
          /\ settled'.state = "resolved"
          /\ Path(project.rootPath, "jaws.json") \in DOMAIN fs'
       \/ /\ pc' = "rejected"
          /\ settled' = Reject("IOError")
          /\ faults' = faults + 1
          /\ "jaws.json" \in calls'

\* C6: with skipStackExecution set and the earlier stages successful, no stack
\* request is submitted and no status poll is made, the scaffold is followed
\* directly by the manifest, whose stage record has both role ARNs empty, and
\* create succeeds.
C6_SkipStack == []C6_NoStackWork /\ [][C6_StraightToManifest]_vars

C6_Witness ==
  noExeCf /\ settled.state = "resolved" /\ ScaffoldComplete /\ StorageDone

\* pairs of resolved invocations for one project name and two stages, both
\* with noExeCf set
SkipPairs ==
  {pair \in (DOMAIN history) \X (DOMAIN history) :
     /\ pair[1] < pair[2]
     /\ history[pair[1]].name = history[pair[2]].name
     /\ history[pair[1]].stage # history[pair[2]].stage
     /\ history[pair[1]].noExeCf /\ history[pair[2]].noExeCf}

Manifests == {p \in DOMAIN fs : p[2] = "jaws.json"}
StagesOf(p) == DOMAIN fs[p].text.project.stages

IsPrefix(a, b) == Len(a) <= Len(b) /\ SubSeq(b, 1, Len(a)) = a

\* C7 as claimed: after two such invocations a persisted manifest holds an
\* entry for each of the two stages, each with empty role ARNs.
C7_TwoStagesInOneManifest ==
  \A pair \in SkipPairs :
    \E p \in Manifests :
      /\ {history[pair[1]].stage, history[pair[2]].stage} \subseteq StagesOf(p)
      /\ EmptyArns(RecordOf(fs[p].text, history[pair[1]].stage))
      /\ EmptyArns(RecordOf(fs[p].text, history[pair[2]].stage))

\* C7 amended: the two invocations end in two project directories, the second
\* under a suffixed name; each directory's manifest has exactly one entry
\* under project.stages, for the stage of its own invocation, with empty role
\* ARNs, and no manifest holds two stages.
C7_OneStagePerManifest ==
  /\ \A p \in Manifests : Cardinality(StagesOf(p)) = 1
  /\ \A pair \in SkipPairs :
       LET first  == history[pair[1]]
           second == history[pair[2]]
           ownManifest(run) ==
             /\ Path(run.rootPath, "jaws.json") \in Manifests
             /\ StagesOf(Path(run.rootPath, "jaws.json")) = {run.stage}
             /\ EmptyArns(RecordOf(fs[Path(run.rootPath, "jaws.json")].text, run.stage))
       IN  /\ first.rootPath # second.rootPath
           /\ IsPrefix(NormalizeName(second.name) \o <<"-">>, second.rootPath)
           /\ Len(second.rootPath) > Len(NormalizeName(second.name)) + 1
           /\ ownManifest(first)
           /\ ownManifest(second)

C7_Witness ==
  /\ SkipPairs # {}
  /\ Cardinality(Manifests) = 2

\* C8: when a directory with the normalized name exists, the final name is
\* <name>-<suffix> with a non-empty suffix and names no path that existed
\* when the invocation started.
C8_SuffixedNameIsFree ==
  (StorageOrLater /\ existsSync(before.fs, NormalizeName(answers.name)))
    => /\ IsPrefix(NormalizeName(answers.name) \o <<"-">>, project.name)
       /\ Len(project.name) > Len(NormalizeName(answers.name)) + 1
       /\ RootDir(project.name) \notin DOMAIN before.fs

OutputNamed(outs, key) ==
  LET values == {outs.list[i].OutputValue :
                   i \in {j \in DOMAIN outs.list : outs.list[j].OutputKey = key}}
  IN  IF values = {} THEN "" ELSE CHOOSE v \in values : TRUE

\* C10: when create resolves, the manifest it resolves with is the one in
\* jaws.json under the project root; it has the final project name, exactly
\* one stage key (the configured stage) holding exactly one record
\* {region, iamRoleArnLambda, iamRoleArnApiGateway} with each ARN the stack
\* output of that key or '', and envVarBucket = {configured bucket, region}.
C10_ManifestContents ==
  settled.state = "resolved" =>
    LET manifest == settled.value
        file     == fs[Path(project.rootPath, "jaws.json")]
        record   == manifest.project.stages[answers.stage][1]
    IN  /\ Path(project.rootPath, "jaws.json") \in DOMAIN fs
        /\ file.kind = "json"
        /\ file.text = manifest
        /\ manifest.name = project.name
        /\ project.rootPath = project.name
        /\ \E id \in ShortIds :
             manifest.name = UniqueName(before.fs, NormalizeName(answers.name), id)
        /\ DOMAIN manifest.project.stages = {answers.stage}
        /\ Len(manifest.project.stages[answers.stage]) = 1
        /\ DOMAIN record = {"region", "iamRoleArnLambda", "iamRoleArnApiGateway"}
        /\ record.region = answers.region
        /\ record.iamRoleArnLambda = OutputNamed(cfOutputs, "IamRoleArnLambda")
        /\ record.iamRoleArnApiGateway = OutputNamed(cfOutputs, "IamRoleArnApiGateway")
        /\ manifest.project.envVarBucket =
             [name |-> answers.s3Bucket, region |-> answers.region]

C10_Witness ==
  /\ settled.state = "resolved"
  /\ ~noExeCf
  /\ Len(cfOutputs.list) = 3
  /\ RecordOf(settled.value, answers.stage).iamRoleArnLambda = ArnLambda

----------------------------------------------------------------------------
(***************************************************************************)
(* The runtime plugin base class (src/lib/RuntimeBase.js).  File names,    *)
(* handlers and patterns are sequences of one-character strings, as the    *)
(* code compares and cuts them character by character; the file tree maps  *)
(* a path, a sequence of names, to "dir" or "file".                        *)
(***************************************************************************)

\* path.sep
sep == "/"

\* String.prototype.indexOf: place of the first occurrence, from 0, or -1
indexOf(s, sub) ==
  LET hits == {i \in 0..(Len(s) - Len(sub)) : SubSeq(s, i + 1, i + Len(sub)) = sub}
  IN  IF hits = {} THEN -1 ELSE CHOOSE i \in hits : \A j \in hits : i <= j

\* String.prototype.replace with a string pattern: the first occurrence only
replace(s, sub, by) ==
  LET i == indexOf(s, sub)
  IN  IF i = -1
        THEN s
        ELSE SubSeq(s, 1, i) \o by \o SubSeq(s, i + Len(sub) + 1, Len(s))

\* String.prototype.split('/')
RECURSIVE split(_)
split(s) ==
  LET i == indexOf(s, <<sep>>)
  IN  IF i = -1
        THEN <<s>>
        ELSE <<SubSeq(s, 1, i)>> \o split(SubSeq(s, i + 2, Len(s)))

\* the names of a path with "", "." and ".." resolved
RECURSIVE Resolved(_, _, _)
Resolved(names, done, absolute) ==
  IF names = <<>> THEN done
  ELSE LET n == Head(names)
       IN  IF n = <<>> \/ n = <<".">>
             THEN Resolved(Tail(names), done, absolute)
           ELSE IF n = <<".", ".">>
             THEN IF done # <<>> /\ done[Len(done)] # <<".", ".">>
                    THEN Resolved(Tail(names), SubSeq(done, 1, Len(done) - 1), absolute)
                  ELSE IF absolute
                    THEN Resolved(Tail(names), done, absolute)
                    ELSE Resolved(Tail(names), Append(done, n), absolute)
           ELSE Resolved(Tail(names), Append(done, n), absolute)

RECURSIVE Joined(_)
Joined(names) ==
  IF names = <<>> THEN <<>>
  ELSE IF Len(names) = 1 THEN names[1]
  ELSE names[1] \o <<sep>> \o Joined(Tail(names))

\* path.normalize
normalize(p) ==
  IF p = <<>> THEN <<".">>
  ELSE LET absolute == Head(p) = sep
           trailing == p[Len(p)] = sep
           body     == Joined(Resolved(split(p), <<>>, absolute))
       IN  IF body = <<>>
             THEN IF absolute THEN <<sep>>
                  ELSE IF trailing THEN <<".", sep>> ELSE <<".">>
             ELSE (IF absolute THEN <<sep>> ELSE <<>>) \o body
                  \o (IF trailing THEN <<sep>> ELSE <<>>)

\* path.join of two strings
join(a, b) ==
  IF a = <<>> THEN normalize(b)
  ELSE IF b = <<>> THEN normalize(a)
  ELSE normalize(a \o <<sep>> \o b)

\* the names of an absolute path: the key of the file tree
Names(p) == Resolved(split(p), <<>>, TRUE)

\* path.resolve of an absolute path
pathResolve(p) == <<sep>> \o Joined(Names(p))

\* path.basename
basename(p) ==
  LET names == SelectSeq(split(p), LAMBDA n : n # <<>>)
  IN  IF names = <<>> THEN <<>> ELSE names[Len(names)]

\* one character of a pattern against one character of the subject
CharMatches(rc, c) == rc = "." \/ rc = c

LiteralAt(lit, s, i) ==
  /\ i + Len(lit) - 1 <= Len(s)
  /\ \A k \in 1..Len(lit) : CharMatches(lit[k], s[i + k - 1])

\* new RegExp(source).exec(s) finds a match; the sources used are literal
\* characters and ".", with an optional leading "^" and trailing "$"
RegExpExec(source, s) ==
  LET fromStart == source # <<>> /\ Head(source) = "^"
      rest      == IF fromStart THEN Tail(source) ELSE source
      toEnd     == rest # <<>> /\ rest[Len(rest)] = "$"
      lit       == IF toEnd THEN SubSeq(rest, 1, Len(rest) - 1) ELSE rest
      starts    == IF fromStart THEN {1} ELSE 1..(Len(s) + 1)
  IN  \E i \in starts :
        /\ LiteralAt(lit, s, i)
        /\ toEnd => i + Len(lit) - 1 = Len(s)
----------------------------------------------------------------------------
(* The file tree *)

\* file and directory names
app       == <<"a","p","p">>
api       == <<"a","p","i">>
fn        == <<"f","n">>
myfn      == <<"m","y","f","n">>
my        == <<"m","y">>
meta      == <<"_","m","e","t","a">>
tmp       == <<"_","t","m","p">>
index_js  == <<"i","n","d","e","x",".","j","s">>
lib       == <<"l","i","b">>
helper_js == <<"h","e","l","p","e","r",".","j","s">>
DS_Store  == <<".","D","S","_","S","t","o","r","e">>
tests     == <<"t","e","s","t","s">>
unit      == <<"u","n","i","t">>
foo_js    == <<"f","o","o",".","j","s">>
src       == <<"s","r","c">>
notes     == <<"n","o","t","e","s">>
nope      == <<"n","o","p","e">>
dot       == <<".">>

\* the string of an absolute path
Abs(names) == <<sep>> \o Joined(names)

Ancestors(path) == {SubSeq(path, 1, n) : n \in 0..(Len(path) - 1)}

\* the tree with one more file or directory, and the directories leading to it
Add(d, path, kind) ==
  [q \in DOMAIN d \cup Ancestors(path) \cup {path} |->
     IF q = path THEN kind
     ELSE IF q \in Ancestors(path) THEN "dir"
     ELSE d[q]]

RECURSIVE AddFiles(_, _)
AddFiles(d, paths) ==
  IF paths = <<>> THEN d ELSE AddFiles(Add(d, Head(paths), "file"), Tail(paths))

\* fs.lstatSync(p): the kind of the entry, or the error it throws
lstatSync(d, p) == IF Names(p) \in DOMAIN d THEN d[Names(p)] ELSE "ENOENT"

\* fs.readdirSync of the directory with these names
readdirSync(d, dir) ==
  {q[Len(dir) + 1] : q \in {x \in DOMAIN d : /\ Len(x) = Len(dir) + 1
                                             /\ SubSeq(x, 1, Len(dir)) = dir}}

\* the entries below a directory, as names relative to it
Below(d, dir) ==
  {SubSeq(q, Len(dir) + 1, Len(q)) :
     q \in {x \in DOMAIN d : Len(x) > Len(dir) /\ SubSeq(x, 1, Len(dir)) = dir}}

\* a set listed in some order
RECURSIVE Listed(_)
Listed(set) ==
  IF set = {} THEN <<>>
  ELSE LET x == CHOOSE y \in set : TRUE IN <<x>> \o Listed(set \ {x})

\* wrench.readdirSyncRecursive(p): every entry below p, relative to p
readdirSyncRecursive(d, p) ==
  LET rel == Listed(Below(d, Names(p)))
  IN  [i \in DOMAIN rel |-> Joined(rel[i])]
----------------------------------------------------------------------------
(* The project, the function object and the inputs of the plugin methods *)

ProjectRoot == Abs(<<app>>)

\* this.S.getProject().getRootPath(a, b, c) of line 74
projectRootPath(a, b, c) == join(join(join(ProjectRoot, a), b), c)

\* func.getRootPath(x) of lines 105 and 160
getRootPath(f, x) == join(f.dir, x)

\* handlers: "index.handler", "fn/index.handler", "lib/index.handler"
IndexHandler    == <<"i","n","d","e","x",".","h","a","n","d","l","e","r">>
FnIndexHandler  == fn \o <<sep>> \o IndexHandler
LibIndexHandler == lib \o <<sep>> \o IndexHandler
Handlers == {IndexHandler, FnIndexHandler, LibIndexHandler}

\* exclusion patterns: "^tests/", "tests/", "^app/", "notes$"
TestsAtRoot   == <<"^">> \o tests \o <<sep>>
TestsAnywhere == tests \o <<sep>>
AppAtRoot     == <<"^">> \o app \o <<sep>>
NotesAtEnd    == notes \o <<"$">>
PatternLists ==
  { <<>>, <<TestsAtRoot>>, <<TestsAnywhere>>, <<AppAtRoot, NotesAtEnd>>,
    <<NotesAtEnd, AppAtRoot>>, <<TestsAtRoot, TestsAnywhere>> }

\* include paths, relative to the distribution directory
IncludeLists ==
  { <<dot>>, <<index_js>>, <<dot, index_js>>, <<lib>>,
    <<tests, src \o <<sep>> \o tests>>, <<nope>>, <<index_js, nope>> }

FuncNames == {fn, myfn}

Function(n, h, c) ==
  [name |-> n, dir |-> Abs(<<app, api, n>>), handler |-> h, custom |-> c]

\* the functions handed to the plugin: every handler with no list declared,
\* every list of exclusion patterns, every list of include paths
Funcs ==
  {Function(n, h, [x \in {} |-> <<>>]) : n \in FuncNames, h \in Handlers}
    \cup {Function(fn, IndexHandler, [excludePatterns |-> e]) : e \in PatternLists}
    \cup {Function(n, IndexHandler, [includePaths |-> i]) :
            n \in FuncNames, i \in IncludeLists}

\* Date.prototype.getTime() as it prints in a string
Times == {<<"1">>, <<"2">>}

RuntimeNames == {"nodejs", "python2.7"}

\* the sources of the two functions, with and without the temporary area
\* of the project and a directory next to the functions
Sources ==
  AddFiles(<<>>,
    << <<app, api, fn, index_js>>, <<app, api, fn, lib, helper_js>>,
       <<app, api, fn, DS_Store>>, <<app, api, fn, tests, unit, foo_js>>,
       <<app, api, fn, src, tests, unit, foo_js>>,
       <<app, api, myfn, index_js>>, <<app, api, myfn, lib, helper_js>>,
       <<app, api, myfn, DS_Store>> >>)

InitialDisks ==
  { Sources,
    Add(Sources, <<app, meta, tmp>>, "dir"),
    Add(Add(Sources, <<app, meta, tmp>>, "dir"), <<app, api, my, notes>>, "file") }

NoPlugin == [name |-> <<>>]

\* the state a call starts from, kept with what the call gave back
Returned(op, arg, outcome) ==
  [op |-> op, arg |-> arg, outcome |-> outcome,
   before |-> [disk |-> disk, plugin |-> plugin, SUtils |-> SUtils]]

\* a template literal or string concatenation, part by part
Message(parts) == [type |-> "SError", message |-> parts]
----------------------------------------------------------------------------
(* The methods of ServerlessRuntimeBase *)

\* line 129: func.custom.excludePatterns || []
excludePatternsOf(f) ==
  IF "excludePatterns" \in DOMAIN f.custom THEN f.custom.excludePatterns ELSE <<>>

\* the same loop trying each pattern before the separator is cut
RECURSIVE some_cutAfterTest(_, _)
some_cutAfterTest(patterns, relPath) ==
  IF patterns = <<>> THEN FALSE
  ELSE LET cut == IF relPath # <<>> /\ Head(relPath) = sep THEN Tail(relPath)
                  ELSE relPath
       IN  RegExpExec(Head(patterns), relPath) \/ some_cutAfterTest(Tail(patterns), cut)

\* lines 137-149: excludePatterns.some(...); relPath loses one leading
\* separator before each pattern is tried and stays cut for the next one
RECURSIVE some(_, _)
some(patterns, relPath) ==
  IF patterns = <<>> THEN FALSE
  ELSE LET cut == IF relPath # <<>> /\ Head(relPath) = sep THEN Tail(relPath)
                  ELSE relPath
       IN  RegExpExec(Head(patterns), cut) \/ some(Tail(patterns), cut)

\* lines 131-150: the function _exclude returns, called with (name, prefix)
exclude(f, pathDist, name, prefix) ==
  LET excludePatterns == excludePatternsOf(f)
  IN  IF Len(excludePatterns) = 0
        THEN FALSE
        ELSE some(excludePatterns, join(replace(prefix, pathDist, <<>>), name))

\* the entries wrench.copyDirSyncRecursive copies out of the source directory
\* `sourceDir`: it calls exclude(entry, sourceDir) on every entry it reads and
\* descends into the directories it keeps
RECURSIVE copiedEntries(_, _, _, _)
copiedEntries(d, f, pathDist, sourceDir) ==
  LET dir  == Names(sourceDir)
      kept == {n \in readdirSync(d, dir) : ~exclude(f, pathDist, n, sourceDir)}
  IN  UNION { {<<n>>} \cup
                (IF d[Append(dir, n)] = "dir"
                   THEN {<<n>> \o r : r \in copiedEntries(d, f, pathDist, join(sourceDir, n))}
                   ELSE {})
              : n \in kept }

\* wrench.copyDirSyncRecursive(sourceDir, newDirLocation, {exclude: ...}):
\* an existing target makes it return an Error object without copying; a
\* missing source or a target whose parent is missing makes it throw
copyDirSyncRecursive(d, f, pathDist, sourceDir, newDirLocation) ==
  LET source == Names(sourceDir)
      target == Names(newDirLocation)
      parent == SubSeq(target, 1, Len(target) - 1)
      copied == copiedEntries(d, f, pathDist, sourceDir)
  IN  IF lstatSync(d, newDirLocation) = "dir"
        THEN [thrown |-> FALSE, value |-> "Error", disk |-> d]
      ELSE IF lstatSync(d, sourceDir) = "ENOENT"
        THEN [thrown |-> TRUE, code |-> "ENOENT", disk |-> d]
      ELSE IF target = <<>> \/ parent \notin DOMAIN d \/ d[parent] # "dir"
        THEN [thrown |-> TRUE, code |-> "ENOENT", disk |-> d]
      ELSE IF lstatSync(d, sourceDir) = "file"
        THEN [thrown |-> TRUE, code |-> "ENOTDIR", disk |-> Add(d, target, "dir")]
      ELSE [thrown |-> FALSE, value |-> "undefined",
            disk |-> [q \in DOMAIN d \cup {target} \cup {target \o r : r \in copied} |->
                        IF q \in DOMAIN d THEN d[q]
                        ELSE IF q = target THEN "dir"
                        ELSE d[source \o SubSeq(q, Len(target) + 1, Len(q))]]]

\* lines 104-112 and 159-167: the package root, cut out of the handler path
handlerFullPath(f) ==
  LET parts == split(f.handler) IN getRootPath(f, parts[Len(parts)])

packageRoot(f) == replace(handlerFullPath(f), f.handler, <<>>)

\* lines 99-118 and 154-172: the function BbPromise.try runs
copy(d, f, pathDist) ==
  IF indexOf(handlerFullPath(f), f.handler) = -1
    THEN [outcome |-> [status |-> "rejected",
                       error |-> Message(<<"This function's handler is invalid and not in the file system: ",
                                           f.handler>>)],
          disk |-> d]
    ELSE LET done == copyDirSyncRecursive(d, f, pathDist, packageRoot(f), pathDist)
         IN  [outcome |-> IF done.thrown
                            THEN [status |-> "rejected",
                                  error |-> [type |-> "Error", code |-> done.code]]
                            ELSE [status |-> "resolved", value |-> done.value],
              disk |-> done.disk]

\* line 186: func.custom.includePaths || ['.']
includePathsOf(f) ==
  IF "includePaths" \in DOMAIN f.custom THEN f.custom.includePaths ELSE <<dot>>

\* line 181
ignore == <<DS_Store>>

\* lines 214-216: the test that skips a listed file
ignored(file) ==
  \E i \in DOMAIN ignore : indexOf(toLowerCase(file), ignore[i]) > -1

\* lines 207-228: the entries a directory include path adds
directoryEntries(d, p, fullPath) ==
  LET dirname == basename(p)
      files   == readdirSyncRecursive(d, fullPath)
      kept    == SelectSeq(files, LAMBDA file :
                   ~ignored(file) /\ lstatSync(d, join(fullPath, file)) = "file")
  IN  [i \in DOMAIN kept |->
         [name |-> join(dirname, kept[i]), path |-> join(fullPath, kept[i])]]

\* the same loop going on to the next include path when one is not there
RECURSIVE forEachIncludePath_skipMissing(_, _, _, _)
forEachIncludePath_skipMissing(d, pathDist, includePaths, compressPaths) ==
  IF includePaths = <<>>
    THEN [status |-> "resolved", value |-> compressPaths]
    ELSE LET p        == Head(includePaths)
             fullPath == pathResolve(join(pathDist, p))
             stats    == lstatSync(d, fullPath)
         IN  IF stats = "ENOENT"
               THEN forEachIncludePath_skipMissing(d, pathDist, Tail(includePaths),
                      compressPaths)
             ELSE IF stats = "file"
               THEN forEachIncludePath_skipMissing(d, pathDist, Tail(includePaths),
                      Append(compressPaths, [name |-> p, path |-> fullPath]))
             ELSE forEachIncludePath_skipMissing(d, pathDist, Tail(includePaths),
                    compressPaths \o directoryEntries(d, p, fullPath))

\* lines 188-230: includePaths.forEach(...), compressPaths growing; an
\* include path that is not there makes lstatSync throw out of the loop
RECURSIVE forEachIncludePath(_, _, _, _)
forEachIncludePath(d, pathDist, includePaths, compressPaths) ==
  IF includePaths = <<>>
    THEN [status |-> "resolved", value |-> compressPaths]
    ELSE LET p        == Head(includePaths)
             fullPath == pathResolve(join(pathDist, p))
             stats    == lstatSync(d, fullPath)
         IN  IF stats = "ENOENT"
               THEN [status |-> "thrown",
                     error |-> [type |-> "Error", code |-> "ENOENT"]]
             ELSE IF stats = "file"
               THEN forEachIncludePath(d, pathDist, Tail(includePaths),
                      Append(compressPaths, [name |-> p, path |-> fullPath]))
             ELSE forEachIncludePath(d, pathDist, Tail(includePaths),
                    compressPaths \o directoryEntries(d, p, fullPath))

\* lines 73-74: the path _createDistDir computes
distPath(funcName, time) == projectRootPath(meta, tmp, funcName \o <<"@">> \o time)

\* the distribution directory handed to the steps that follow _createDistDir
DistPaths(f) == {distPath(f.name, <<"1">>)}

Constructed == plugin # NoPlugin

\* the plugin leaves the `new project` command alone
Apart == UNCHANGED <<createVars, chainVars>>

\* lines 17-21: new ServerlessRuntimeBase(S, name)
Construct ==
  /\ ~Constructed
  /\ \E name \in RuntimeNames :
       /\ plugin' = [S |-> "S", name |-> name]
       /\ SUtils' = "S.utils"
       /\ returned' = Returned("constructor", name, [status |-> "returned"])
  /\ UNCHANGED <<disk, func>>
  /\ Apart

\* lines 62-64
getName == plugin.name

\* lines 28-30
Scaffold ==
  /\ Constructed
  /\ returned' = Returned("scaffold", func.name, [status |-> "resolved", value |-> "undefined"])
  /\ UNCHANGED <<disk, func, plugin, SUtils>>
  /\ Apart

\* a run() that does nothing, as scaffold() does
Run_resolves ==
  /\ Constructed
  /\ returned' = Returned("run", func.name, [status |-> "resolved", value |-> "undefined"])
  /\ UNCHANGED <<disk, func, plugin, SUtils>>
  /\ Apart

\* lines 37-39
Run ==
  /\ Constructed
  /\ returned' = Returned("run", func.name,
       [status |-> "rejected",
        error |-> Message(<<"Runtime \"", getName, "\" should implement \"run()\" method">>)])
  /\ UNCHANGED <<disk, func, plugin, SUtils>>
  /\ Apart

\* lines 46-48
Build ==
  /\ Constructed
  /\ returned' = Returned("build", func.name, [status |-> "resolved", value |-> "undefined"])
  /\ UNCHANGED <<disk, func, plugin, SUtils>>
  /\ Apart

\* lines 54-56
InstallDependencies ==
  /\ Constructed
  /\ \E dir \in DistPaths(func) :
       returned' = Returned("installDependencies", dir,
         [status |-> "rejected",
          error |-> Message(<<"Runtime \"", getName,
                              "\" should implement \"installDepedencies()\" method">>)])
  /\ UNCHANGED <<disk, func, plugin, SUtils>>
  /\ Apart

\* lines 71-85: the promise is resolved with the function written at lines
\* 76-84, which nothing calls
CreateDistDir ==
  /\ Constructed
  /\ \E funcName \in FuncNames, time \in Times :
       returned' = Returned("_createDistDir", funcName,
         [status |-> "resolved",
          value |-> [type |-> "function", pathDist |-> distPath(funcName, time)]])
  /\ UNCHANGED <<disk, func, plugin, SUtils>>
  /\ Apart

\* lines 94-119
CopyFunction ==
  /\ Constructed
  /\ \E pathDist \in DistPaths(func) :
       LET done == copy(disk, func, pathDist)
       IN  /\ disk' = done.disk
           /\ returned' = Returned("_copyFunction", pathDist, done.outcome)
  /\ UNCHANGED <<func, plugin, SUtils>>
  /\ Apart

\* lines 153-173
CopyDir ==
  /\ Constructed
  /\ \E pathDist \in DistPaths(func) :
       LET done == copy(disk, func, pathDist)
       IN  /\ disk' = done.disk
           /\ returned' = Returned("_copyDir", pathDist, done.outcome)
  /\ UNCHANGED <<func, plugin, SUtils>>
  /\ Apart

\* lines 175-177
AfterCopyDir ==
  /\ Constructed
  /\ \E pathDist \in DistPaths(func) :
       returned' = Returned("_afterCopyDir", pathDist,
                            [status |-> "resolved", value |-> "undefined"])
  /\ UNCHANGED <<disk, func, plugin, SUtils>>
  /\ Apart

\* lines 179-233
GenerateIncludePaths ==
  /\ Constructed
  /\ \E pathDist \in DistPaths(func) :
       returned' = Returned("_generateIncludePaths", pathDist,
                     forEachIncludePath(disk, pathDist, includePathsOf(func), <<>>))
  /\ UNCHANGED <<disk, func, plugin, SUtils>>
  /\ Apart

\* the `new project` command at rest
CommandAtRest ==
  /\ pc = "idle"
  /\ answers = NoAnswers
  /\ noExeCf = FALSE
  /\ project = EmptyProject
  /\ fs = EmptyFs
  /\ credentials = NoCredentialsFile
  /\ s3 = [buckets |-> {}, objects |-> {}]
  /\ stacks = {}
  /\ pending = {}
  /\ polls = 0
  /\ cfOutputs = NoOutputs
  /\ cfTemplate = TemplateAsShipped
  /\ settled = [state |-> "none"]
  /\ unhandled = {}
  /\ calls = {}
  /\ faults = 0
  /\ lastStatus = "none"
  /\ before = [fs |-> fs, credentials |-> credentials,
               s3 |-> [buckets |-> {}, objects |-> {}], stacks |-> {}]
  /\ history = <<>>
  /\ creates = 0

\* RuntimeBase.js loaded, a function at hand, no plugin constructed yet
InitPlugin ==
  /\ CommandAtRest
  /\ NoChains
  /\ disk \in InitialDisks
  /\ func \in Funcs
  /\ plugin = NoPlugin
  /\ SUtils = Undefined
  /\ returned = [op |-> "none"]

\* the public methods and the hooks of a plugin that overrides nothing
NextPlugin ==
  \/ Construct
  \/ Scaffold
  \/ Run
  \/ Build
  \/ InstallDependencies
  \/ CreateDistDir
  \/ AfterCopyDir

SpecPlugin == InitPlugin /\ [][NextPlugin]_vars

\* a constructed plugin about to package a function
InitPackaging ==
  /\ CommandAtRest
  /\ NoChains
  /\ disk \in InitialDisks
  /\ func \in Funcs
  /\ plugin = [S |-> "S", name |-> "nodejs"]
  /\ SUtils = "S.utils"
  /\ returned = [op |-> "none"]

\* the packaging steps, in any order and any number of times
NextPackaging ==
  \/ CopyFunction
  \/ CopyDir
  \/ GenerateIncludePaths

SpecPackaging == InitPackaging /\ [][NextPackaging]_vars
----------------------------------------------------------------------------
(* Properties of the runtime plugin *)

\* the latest call was a copy step that copied the package root
Copied ==
  /\ returned.op \in {"_copyFunction", "_copyDir"}
  /\ returned.outcome.status = "resolved"
  /\ returned.outcome.value = "undefined"

\* a file of the package root, by its names relative to that root, was there
\* when the copy started
InPackage(rel) == Names(packageRoot(func)) \o rel \in DOMAIN returned.before.disk

\* the same file is in the distribution directory now
InDist(rel) == Names(returned.arg) \o rel \in DOMAIN disk

Collected ==
  /\ returned.op = "_generateIncludePaths"
  /\ returned.outcome.status = "resolved"

\* the regular files below the distribution directory, relative to it
FilesInDist ==
  {r \in Below(disk, Names(returned.arg)) : disk[Names(returned.arg) \o r] = "file"}

ArchiveNames(manifest) == {manifest[i].name : i \in DOMAIN manifest}

\* C12: for the include path "." the manifest has exactly one entry per
\* regular file below the distribution directory that is not named
\* .DS_Store, under the file's relative path, and none for a .DS_Store.
C12_SkipsMetadataFiles ==
  (Collected /\ includePathsOf(func) = <<dot>>) =>
    LET wanted == {r \in FilesInDist : r[Len(r)] # DS_Store}
    IN  /\ Len(returned.outcome.value) = Cardinality(wanted)
        /\ ArchiveNames(returned.outcome.value) = {Joined(r) : r \in wanted}

\* C13: no two entries of a manifest have the same archive name.
C13_ArchiveNamesDistinct ==
  Collected =>
    \A i, j \in DOMAIN returned.outcome.value :
      i # j => returned.outcome.value[i].name # returned.outcome.value[j].name

\* the directory part of the handler: its names but the last
HandlerDir(f) ==
  LET parts == split(f.handler) IN SubSeq(parts, 1, Len(parts) - 1)

\* the function's directory ends with the directory part of its handler, so
\* the handler names a file of a package root that contains the function
HandlerInPackage(f) ==
  LET at == Names(f.dir)
      h  == HandlerDir(f)
  IN  /\ Len(h) <= Len(at)
      /\ SubSeq(at, Len(at) - Len(h) + 1, Len(at)) = h

\* that package root
RootOf(f) == SubSeq(Names(f.dir), 1, Len(Names(f.dir)) - Len(HandlerDir(f)))

CopyStep == returned.op \in {"_copyFunction", "_copyDir"}

InvalidHandlerError ==
  /\ returned.outcome.status = "rejected"
  /\ returned.outcome.error.type = "SError"
  /\ returned.outcome.error.message[2] = func.handler

\* C14: a copy step given a handler that is not inside a package root fails
\* with the invalid-handler error and leaves the disk as it was; given a
\* valid handler, what it copies is the package root that contains the
\* handler.
C14_InvalidHandlerCopiesNothing ==
  CopyStep =>
    /\ ~HandlerInPackage(func) => (InvalidHandlerError /\ disk = returned.before.disk)
    /\ (HandlerInPackage(func) /\ Copied) =>
         /\ Names(packageRoot(func)) = RootOf(func)
         /\ \A r \in Below(disk, Names(returned.arg)) :
              RootOf(func) \o r \in DOMAIN returned.before.disk

\* an include path of the function that is not in the distribution directory
MissingIncludePath ==
  \E i \in DOMAIN includePathsOf(func) :
    Names(join(returned.arg, includePathsOf(func)[i])) \notin DOMAIN disk

\* C15: when an include path is not in the distribution directory the
\* collection fails and gives its caller no manifest, whatever the include
\* paths before it added.
C15_MissingIncludePathFails ==
  (returned.op = "_generateIncludePaths" /\ MissingIncludePath) =>
    /\ returned.outcome.status = "thrown"
    /\ "value" \notin DOMAIN returned.outcome

\* the collection failed on its second include path after the first one,
\* which is there, had added an entry
C15_Witness ==
  /\ returned.op = "_generateIncludePaths"
  /\ includePathsOf(func) = <<index_js, nope>>
  /\ Names(join(returned.arg, index_js)) \in DOMAIN disk
  /\ returned.outcome.status = "thrown"

\* the (name, prefix) pairs a copy of the package root asks the matcher about
Asked ==
  LET root == Names(packageRoot(func))
  IN  {<<q[Len(q)], Abs(SubSeq(q, 1, Len(q) - 1))>> :
         q \in {x \in DOMAIN disk : /\ Len(x) > Len(root)
                                    /\ SubSeq(x, 1, Len(root)) = root}}

\* the path the patterns are tried against
Candidate(pathDist, name, prefix) ==
  LET relPath == join(replace(prefix, pathDist, <<>>), name)
  IN  IF Head(relPath) = sep THEN Tail(relPath) ELSE relPath

Reordered(list) ==
  {[i \in DOMAIN list |-> list[f[i]]] : f \in Permutations(DOMAIN list)}

WithPatterns(f, list) == [f EXCEPT !.custom = [excludePatterns |-> list]]

\* C18: the matcher is true of a path exactly when the list of patterns is
\* not empty and one of them matches the path, so it is false of every path
\* under the empty list, and its answer is the same for every order of the
\* list.
C18_SomePatternMatches ==
  \A pathDist \in DistPaths(func) : \A a \in Asked :
    LET list == excludePatternsOf(func)
    IN  /\ exclude(func, pathDist, a[1], a[2]) =
             (/\ list # <<>>
              /\ \E i \in DOMAIN list :
                   RegExpExec(list[i], Candidate(pathDist, a[1], a[2])))
        /\ \A other \in Reordered(list) :
             exclude(WithPatterns(func, other), pathDist, a[1], a[2])
               = exclude(func, pathDist, a[1], a[2])

\* a copy under two patterns kept one entry of the package root out and
\* took another in
C18_Witness ==
  /\ Copied
  /\ Len(excludePatternsOf(func)) = 2
  /\ \E a, b \in Asked : \E pathDist \in DistPaths(func) :
       /\ exclude(func, pathDist, a[1], a[2])
       /\ ~exclude(func, pathDist, b[1], b[2])
NotImplemented ==
  /\ returned.outcome.status = "rejected"
  /\ returned.outcome.error.type = "SError"
  /\ returned.outcome.error.message[2] = plugin.name

NothingChanged ==
  /\ disk = returned.before.disk
  /\ plugin = returned.before.plugin
  /\ SUtils = returned.before.SUtils

\* C16: on a plugin that overrides nothing, run and installDependencies fail
\* when called, with an error that names the runtime; scaffold and the
\* post-copy hook succeed and change nothing; the constructor succeeds.
C16_DefaultHooks ==
  /\ returned.op \in {"run", "installDependencies"} => (NotImplemented /\ NothingChanged)
  /\ returned.op \in {"scaffold", "_afterCopyDir"} =>
       (returned.outcome.status = "resolved" /\ NothingChanged)
  /\ returned.op = "constructor" => (returned.outcome.status = "returned" /\ Constructed)

\* run() was called on the plugin of the second runtime
C16_Witness ==
  /\ returned.op = "run"
  /\ plugin.name = "python2.7"
  /\ returned.outcome.status = "rejected"

\* C19: _createDistDir gives its caller a path <functionName>@<timestamp>
\* under the temporary area of the project, and the directory is on disk
\* when the step has completed; two different function names give two
\* different paths, at one timestamp too.
C19_DistDirOnDisk ==
  /\ returned.op = "_createDistDir" =>
       /\ returned.outcome.status = "resolved"
       /\ returned.outcome.value.type = "path"
       /\ \E time \in Times :
            returned.outcome.value.pathDist = distPath(returned.arg, time)
       /\ lstatSync(disk, returned.outcome.value.pathDist) = "dir"
  /\ \A n, m \in FuncNames : \A t, u \in Times :
       n # m => distPath(n, t) # distPath(m, u)

\* every creation of the scaffold step
Creations == ScaffoldItems \cup {"back/.env"}

\* the scaffold step has resolved: the chain went on
ScaffoldResolved ==
  \/ pc = ThenAfter("createProjectDirectory")
  \/ "cfCreateStack" \in calls
  \/ "jaws.json" \in calls

\* the step resolves only with every creation completed and in place
C17_Joined == ScaffoldResolved => (pending = {} /\ ScaffoldComplete)

\* a failed creation fails the step with that failure
C17_FirstFailureFails ==
  ScaffoldFailed => (settled = Reject("IOError") /\ ~ScaffoldResolved)

\* C17 as stated: the seven creations, back/.env among them, are launched
\* together; the step resolves only when all have completed and fails with
\* the failure of any one.
C17_SevenLaunchedTogether ==
  /\ Creations \cap calls # {} => Creations \subseteq calls
  /\ C17_Joined
  /\ C17_FirstFailureFails

\* back/.env is written first; the six others are launched together, and
\* only once it is in place
C17_SixAfterEnvFile ==
  /\ ScaffoldItems \cap calls # {} =>
       /\ ScaffoldItems \subseteq calls
       /\ Path(project.rootPath, "back/.env") \in DOMAIN fs
  /\ (pc = "rejected" /\ "back/.env" \in calls
        /\ Path(project.rootPath, "back/.env") \notin DOMAIN fs)
       => ScaffoldItems \cap calls = {}

\* what a creation has made stays
C17_LeftInPlace == \A p \in DOMAIN fs : p \in DOMAIN fs'

\* C17, amended: back/.env is written first and the six other creations are
\* launched together once it has completed, and not at all when it fails;
\* the step resolves only when all have completed and fails with the failure
\* of any one; what was created stays.
C17_EnvFileThenSixTogether ==
  [](C17_SixAfterEnvFile /\ C17_Joined /\ C17_FirstFailureFails)
    /\ [][C17_LeftInPlace]_vars

\* one of the six has failed and failed the step while another one, still
\* in flight, has yet to complete next to those already created
C17_Witness ==
  /\ pc = "rejected"
  /\ settled = Reject("IOError")
  /\ \E failed, flying, made \in ScaffoldItems :
       /\ ItemFailed(failed)
       /\ flying \in pending
       /\ made \in calls \ pending
       /\ Path(project.rootPath, made) \in DOMAIN fs \ DOMAIN before.fs
----------------------------------------------------------------------------
(***************************************************************************)
(* create() invocations in flight together (src/unnamed/part_000).  Every  *)
(* callback of every chain reads and writes the one module-level `project` *)
(* of line 28 and the one cached template object; what is local to a chain *)
(* is its answers, its noExeCf argument and the adminEnv string of line    *)
(* 242.  The remote calls and the file operations succeed here unless the  *)
(* file system refuses them; their failures are those of Spec.             *)
(***************************************************************************)

Shop == <<"S","h","o","p">>

\* the arguments of the invocations: two projects with nothing in common,
\* the first with a stack, the second without
Invocations ==
  << [answers |->
        [NoAnswers EXCEPT !.name = Demo, !.stage = Dev, !.region = "us-east-1",
                          !.s3Bucket = "jawsproject.yourdomain.com",
                          !.notificationEmail = <<"m","@","x">>, !.awsProfile = "admin"],
      noExeCf |-> FALSE],
     [answers |->
        [NoAnswers EXCEPT !.name = Shop, !.stage = Prod, !.region = "eu-west-1",
                          !.s3Bucket = "shop.yourdomain.com",
                          !.notificationEmail = <<"s","@","x">>, !.awsProfile = "deploy"],
      noExeCf |-> TRUE] >>

Chains == DOMAIN Invocations

NotStarted == [pc |-> "none"]

\* the fields of `project` the later steps read
Config(p) == [name |-> p.name, stage |-> p.stage, region |-> p.region,
              s3Bucket |-> p.s3Bucket, awsProfile |-> p.awsProfile]

\* chain i moves on, having read `project` in the step it leaves
Moved(i, step, next) ==
  [chains EXCEPT ![i].pc = next,
                 ![i].used = @ \cup {[step |-> step, config |-> Config(project)]}]

\* what the invocations leave alone of the state of a single create()
OneAtRest ==
  UNCHANGED <<pc, answers, noExeCf, credentials, pending, polls, cfOutputs, settled,
              unhandled, calls, faults, lastStatus, before, history, creates>>

\* line 387-388: create(...) is called; with every argument given
\* _getAnswers resolves at once and the chain waits for its first callback
Invoke(i) ==
  /\ chains[i] = NotStarted
  /\ chains' = [chains EXCEPT ![i] =
       [pc |-> "prepareProjectData", answers |-> Invocations[i].answers,
        noExeCf |-> Invocations[i].noExeCf,
        adminEnv |-> Undefined, own |-> Config(EmptyProject), used |-> {}]]
  /\ UNCHANGED <<project, cfTemplate, fs, s3, stacks, inflight>>
  /\ OneAtRest
  /\ UNCHANGED runtimeVars

\* lines 173-229, with a profile among the answers (lines 199-200)
ChainPrepareProjectData(i) ==
  /\ chains[i].pc = "prepareProjectData"
  /\ \E id \in ShortIds :
       LET a    == chains[i].answers
           name == UniqueName(fs, NormalizeName(a.name), id)
           mine == WithOtherData([project EXCEPT !.name = name,
                                                 !.awsProfile = a.awsProfile], a)
       IN  /\ project' = mine
           /\ chains' = [chains EXCEPT ![i].pc = ThenAfter("prepareProjectData"),
                                       ![i].own = Config(mine)]
  /\ UNCHANGED <<cfTemplate, fs, s3, stacks, inflight>>
  /\ OneAtRest
  /\ UNCHANGED runtimeVars

\* line 278: AWSUtils.createBucket(project.awsProfile, project.region, project.s3Bucket)
ChainCreateBucket(i) ==
  /\ chains[i].pc = "createS3JawsStructure"
  /\ s3' = [s3 EXCEPT !.buckets = @ \cup {project.s3Bucket}]
  /\ chains' = Moved(i, "createBucket", "putEnvFile")
  /\ UNCHANGED <<project, cfTemplate, fs, stacks, inflight>>
  /\ OneAtRest
  /\ UNCHANGED runtimeVars

\* lines 279-288: AWSUtils.putEnvFile
ChainPutEnvFile(i) ==
  /\ chains[i].pc = "putEnvFile"
  /\ s3' = [s3 EXCEPT !.objects = @ \cup
              {[bucket |-> project.s3Bucket, projName |-> project.name,
                stage |-> project.stage, body |-> EnvFileContents(project)]}]
  /\ chains' = Moved(i, "putEnvFile", ThenAfter("createS3JawsStructure"))
  /\ UNCHANGED <<project, cfTemplate, fs, stacks, inflight>>
  /\ OneAtRest
  /\ UNCHANGED runtimeVars

\* lines 239-256
ChainCreateProjectDirectory(i) ==
  /\ chains[i].pc = "createProjectDirectory"
  /\ project' = [project EXCEPT !.rootPath = project.name]
  /\ cfTemplate' = [aaProjectName |-> project.name, aaStage |-> project.stage,
                    aaDataModelPrefix |-> project.stage,
                    aaNotficationEmail |-> project.notificationEmail]
  /\ fs' = writeFile(fs, project.name, "back/.env", EnvFileContents(project))
  /\ chains' = [Moved(i, "createProjectDirectory", "promiseAll")
                  EXCEPT ![i].adminEnv = project.awsProfile]
  /\ UNCHANGED <<s3, stacks, inflight>>
  /\ OneAtRest
  /\ UNCHANGED runtimeVars

\* lines 257-266: the paths and the template text are computed as the six
\* operations are started
ChainPromiseAll(i) ==
  /\ chains[i].pc = "promiseAll"
  /\ inflight' = inflight \cup
       {[chain |-> i, root |-> project.rootPath, item |-> item,
         content |-> IF item \in MkdirItems THEN Dir
                     ELSE IF item = "admin.env"
                       THEN [kind |-> "adminEnv",
                             ADMIN_AWS_PROFILE |-> chains[i].adminEnv]
                       ELSE [kind |-> "cf", Parameters |-> cfTemplate]] :
          item \in ScaffoldItems}
  /\ chains' = Moved(i, "promiseAll", "awaitAll")
  /\ UNCHANGED <<project, cfTemplate, fs, s3, stacks>>
  /\ OneAtRest
  /\ UNCHANGED runtimeVars

\* one operation of a chain's Promise.all completes
ChainSettleItem(i) ==
  /\ chains[i].pc \in {"awaitAll", "rejected"}
  /\ \E op \in inflight :
       /\ op.chain = i
       /\ inflight' = inflight \ {op}
       /\ IF op.item \in MkdirItems /\ ~mkdirCan(fs, op.root, op.item)
            THEN /\ chains' = [chains EXCEPT ![i].pc = "rejected"]
                 /\ UNCHANGED fs
            ELSE /\ fs' = IF op.item \in MkdirItems
                            THEN Put(fs, Path(op.root, op.item), Dir)
                            ELSE writeFile(fs, op.root, op.item, op.content)
                 /\ chains' =
                      IF chains[i].pc = "awaitAll"
                           /\ \A other \in inflight \ {op} : other.chain # i
                        THEN [chains EXCEPT ![i].pc = ThenAfter("createProjectDirectory")]
                        ELSE chains
  /\ UNCHANGED <<project, cfTemplate, s3, stacks>>
  /\ OneAtRest
  /\ UNCHANGED runtimeVars

\* lines 326-374 for chain i
ChainCreateProjectJson(i, step, outs) ==
  /\ fs' = Put(fs, Path(project.rootPath, "jaws.json"),
               ManifestFile(jawsJson(project, outs)))
  /\ chains' = Moved(i, step, "resolved")
  /\ UNCHANGED stacks

\* lines 392-403: the callback after the scaffold, closed over noExeCf
ChainAfterScaffold(i) ==
  /\ chains[i].pc = "afterScaffold"
  /\ IF chains[i].noExeCf
       THEN ChainCreateProjectJson(i, "createProjectJson", NoOutputs)
       ELSE /\ stacks' = stacks \cup {[name |-> project.name, stage |-> project.stage,
                                        region |-> project.region]}
            /\ chains' = Moved(i, "cfCreateStack", "monitorCfCreate")
            /\ UNCHANGED fs
  /\ UNCHANGED <<project, cfTemplate, s3, inflight>>
  /\ OneAtRest
  /\ UNCHANGED runtimeVars

\* lines 314-316 and 401: the stack is complete and _createProjectJson runs
\* with its outputs
ChainStackComplete(i) ==
  /\ chains[i].pc = "monitorCfCreate"
  /\ \E list \in OutputLists :
       ChainCreateProjectJson(i, "createProjectJson", Outputs(list))
  /\ UNCHANGED <<project, cfTemplate, s3, inflight>>
  /\ OneAtRest
  /\ UNCHANGED runtimeVars

\* the module loaded, an empty working directory, no invocation yet
InitInterleaved ==
  /\ CommandAtRest
  /\ NoRuntime
  /\ chains = [i \in Chains |-> NotStarted]
  /\ inflight = {}

NextInterleaved ==
  \E i \in Chains :
    \/ Invoke(i)
    \/ ChainPrepareProjectData(i)
    \/ ChainCreateBucket(i)
    \/ ChainPutEnvFile(i)
    \/ ChainCreateProjectDirectory(i)
    \/ ChainPromiseAll(i)
    \/ ChainSettleItem(i)
    \/ ChainAfterScaffold(i)
    \/ ChainStackComplete(i)

SpecInterleaved == InitInterleaved /\ [][NextInterleaved]_vars

\* C20: every step of an invocation that reads the project configuration
\* reads the name, stage, region, bucket and profile that this invocation's
\* own validation step wrote, whatever another invocation for another
\* project name does in between.
C20_OwnConfiguration ==
  \A i \in Chains :
    chains[i] # NotStarted =>
      \A u \in chains[i].used : u.config = chains[i].own
====
